---- MODULE Spec2Model ----
(***************************************************************************)
(* A model of the LZSS codec of src/lzss_c.c (the C++ port                 *)
(* src/lzss_cpp.cpp has the same bit stream, match finder and loops).      *)
(*                                                                         *)
(* Arrays are sequences (C index i is TLA+ index i + 1).  A cell of a      *)
(* buffer that no code has stored to holds Unwritten.  uint8_t fields wrap *)
(* modulo 256.  uint32_t values that can exceed TLC's integers (the VLQ    *)
(* number) are kept as two 16-bit halves [hi, lo]; every other uint32_t of *)
(* the model stays far below 2^31, so it is a plain integer.               *)
(***************************************************************************)
EXTENDS Integers, Sequences, FiniteSets, TLC

VARIABLES
    pc,        \* position of the running call
    config,    \* lzss_config_t of the running lzss_encode / lzss_decode call
    given,     \* what the caller started from: the uncompressed bytes (main's
               \* `input`), or the value handed to the VLQ writer
    producer,  \* history: the lzss_config_t the compressed stream was encoded with
    input,     \* array_t input of the running call: [bytes, length]
    output,    \* array_t *output of the running call: [bytes, length]
    capacity,  \* output->length as the encoder's caller passed it
    stream,    \* bit_stream_t of the running call
    index,     \* loop variable of lzss_encode / lzss_decode, or the match index
    error,     \* error_t of the last call
    match,     \* match_t returned by the last __get_longest_match
    number,    \* the uint32_t handed to / returned by the 7-bit VLQ calls
    tokens,    \* history: tokens lzss_encode has emitted so far
    overrun,   \* history: some flush found buffer_position >= buffer_length
    faults,    \* history: kinds of output accesses lzss_decode made outside its contract
    ops        \* number of bit stream calls made (bit stream harness)

vars == <<pc, config, given, producer, input, output, capacity, stream, index, error,
          match, number, tokens, overrun, faults, ops>>

-----------------------------------------------------------------------------
(* Bounds of the model *)

\* every byte sequence over Alphabet up to this length is an encoder input
MaxLen == 4
\* runs of one repeated byte up to this length are encoder inputs too
MaxRun == 12
\* explicit small output capacities tried besides lzss_get_upper_bound
MaxCap == 2
\* longest arbitrary (possibly corrupt) compressed stream handed to lzss_decode
MaxStream == 3
\* largest output length handed to lzss_decode with an arbitrary stream
MaxOut == 3
\* calls made on one bit stream by the bit stream harness
MaxOps == 3
\* largest buffer of the bit stream harness
MaxBitCap == 1

-----------------------------------------------------------------------------
(* error_t *)

ERROR_ALL_GOOD == 0
ERROR_NO_OP == 1
ERROR_BUFFER_OUT_OF_BOUNDS == 2
ERROR_COULD_NOT_ALLOCATE == 3
ERROR_WRONG_OUTPUT_SIZE == 4

\* content of a buffer cell nothing has been stored to
Unwritten == -1

-----------------------------------------------------------------------------
(* Arithmetic of the C types *)

RECURSIVE Pow2(_)
Pow2(n) == IF n = 0 THEN 1 ELSE 2 * Pow2(n - 1)

RECURSIVE BitAnd(_, _)
BitAnd(a, b) ==
    IF a = 0 \/ b = 0 THEN 0
    ELSE (IF a % 2 = 1 /\ b % 2 = 1 THEN 1 ELSE 0) + 2 * BitAnd(a \div 2, b \div 2)

RECURSIVE BitOr(_, _)
BitOr(a, b) ==
    IF a = 0 THEN b
    ELSE IF b = 0 THEN a
    ELSE (IF a % 2 = 1 \/ b % 2 = 1 THEN 1 ELSE 0) + 2 * BitOr(a \div 2, b \div 2)

MIN(a, b) == IF a < b THEN a ELSE b

\* a uint32_t as two 16-bit halves
U32(n) == [hi |-> n \div 65536, lo |-> n % 65536]

\* the value of a small uint32_t kept as halves
U32Value(n) == n.hi * 65536 + n.lo

\* n > 127
U32Gt127(n) == n.hi > 0 \/ n.lo > 127

\* n & 127
U32Low7(n) == BitAnd(n.lo, 127)

\* n >> 7
U32Shr7(n) == [hi |-> n.hi \div 128, lo |-> (n.hi % 128) * 512 + n.lo \div 128]

\* (uint32_t) (payload << shift), payload < 128, shift < 32: bits shifted past bit 31 are lost
U32Shl(payload, shift) ==
    IF shift < 16
    THEN [hi |-> (payload * Pow2(shift)) \div 65536, lo |-> (payload * Pow2(shift)) % 65536]
    ELSE [hi |-> (payload * Pow2(shift - 16)) % 65536, lo |-> 0]

\* a | b
U32Or(a, b) == [hi |-> BitOr(a.hi, b.hi), lo |-> BitOr(a.lo, b.lo)]

-----------------------------------------------------------------------------
(* array_t and bit_stream_t *)

\* an array_t of `length` cells nothing has been stored to (malloc)
NewArray(length) == [bytes |-> [i \in 1..length |-> Unwritten], length |-> length]

ArrayOf(bytes) == [bytes |-> bytes, length |-> Len(bytes)]

bit_stream_init(buffer) ==
    [buffer |-> buffer.bytes,
     buffer_length |-> buffer.length,
     buffer_position |-> 0,
     byte_buffer |-> 0,
     bit_count |-> 0]

\* mutant: at the end of the buffer the byte read last is handed out again
bit_stream_unflush_stale(s) ==
    IF s.buffer_position < s.buffer_length
    THEN [stream |-> [s EXCEPT !.byte_buffer = s.buffer[s.buffer_position + 1],
                               !.buffer_position = s.buffer_position + 1,
                               !.bit_count = 8],
          error |-> ERROR_ALL_GOOD]
    ELSE [stream |-> [s EXCEPT !.bit_count = 8], error |-> ERROR_ALL_GOOD]

bit_stream_unflush(s) ==
    IF s.buffer_position < s.buffer_length
    THEN [stream |-> [s EXCEPT !.byte_buffer = s.buffer[s.buffer_position + 1],
                               !.buffer_position = s.buffer_position + 1,
                               !.bit_count = 8],
          error |-> ERROR_ALL_GOOD]
    ELSE [stream |-> s, error |-> ERROR_BUFFER_OUT_OF_BOUNDS]

bit_stream_flush(s) ==
    IF s.bit_count = 0 THEN [stream |-> s, error |-> ERROR_ALL_GOOD]
    ELSE LET s1 == IF s.bit_count < 8
                   THEN [s EXCEPT !.byte_buffer =
                                      (s.byte_buffer * Pow2(8 - s.bit_count)) % 256]
                   ELSE s
         IN  IF s1.buffer_position >= s1.buffer_length
             THEN [stream |-> s1, error |-> ERROR_BUFFER_OUT_OF_BOUNDS]
             ELSE [stream |-> [s1 EXCEPT !.buffer[s1.buffer_position + 1] = s1.byte_buffer,
                                         !.buffer_position = s1.buffer_position + 1,
                                         !.byte_buffer = 0,
                                         !.bit_count = 0],
                   error |-> ERROR_ALL_GOOD]

\* bit_count -= 1 on a uint8_t; the bit is (byte_buffer & (1 << bit_count)) > 0
bit_stream_read_bit(s) ==
    LET u == IF s.bit_count = 0 THEN bit_stream_unflush(s)
             ELSE [stream |-> s, error |-> ERROR_ALL_GOOD]
    IN  IF u.error # ERROR_ALL_GOOD
        THEN [stream |-> u.stream, error |-> u.error, bit |-> 0]
        ELSE LET c == (u.stream.bit_count + 255) % 256
             IN  [stream |-> [u.stream EXCEPT !.bit_count = c],
                  error |-> ERROR_ALL_GOOD,
                  bit |-> IF c < 8 THEN (u.stream.byte_buffer \div Pow2(c)) % 2 ELSE 0]

bit_stream_write_bit(s, bit) ==
    LET s1 == [s EXCEPT !.byte_buffer = BitOr((s.byte_buffer * 2) % 256, BitAnd(bit, 1)),
                        !.bit_count = (s.bit_count + 1) % 256]
    IN  IF s1.bit_count = 8 THEN bit_stream_flush(s1)
        ELSE [stream |-> s1, error |-> ERROR_ALL_GOOD]

RECURSIVE read_uint32_loop(_, _, _, _)
read_uint32_loop(s, value, i, bits) ==
    IF i < bits
    THEN LET r == bit_stream_read_bit(s)
         IN  IF r.error # ERROR_ALL_GOOD
             THEN [stream |-> r.stream, error |-> r.error, number |-> 0]
             ELSE read_uint32_loop(r.stream, BitOr(value * 2, BitAnd(r.bit, 1)), i + 1, bits)
    ELSE [stream |-> s, error |-> ERROR_ALL_GOOD, number |-> value]

\* on an error *number is left as the caller initialised it (0 at every call site)
bit_stream_read_uint32(s, bits) == read_uint32_loop(s, 0, 0, bits)

RECURSIVE bit_stream_write_uint32(_, _, _)
bit_stream_write_uint32(s, n, bits) ==
    IF bits > 0
    THEN LET bit == IF BitAnd(n, Pow2(bits - 1)) > 0 THEN 1 ELSE 0
             r == bit_stream_write_bit(s, bit)
         IN  IF r.error # ERROR_ALL_GOOD THEN r
             ELSE bit_stream_write_uint32(r.stream, n, bits - 1)
    ELSE [stream |-> s, error |-> ERROR_ALL_GOOD]

\* Reads an uint32 using 7-bit VLQ approach; `shift` is a uint8_t
RECURSIVE read_7bit_loop(_, _, _)
read_7bit_loop(s, n, shift) ==
    LET r == bit_stream_read_uint32(s, 8)
    IN  IF r.error # ERROR_ALL_GOOD
        THEN [stream |-> r.stream, error |-> r.error, number |-> U32(0)]
        ELSE LET n1 == U32Or(n, U32Shl(BitAnd(r.number, 127), shift))
                 shift1 == (shift + 7) % 256
             IN  IF BitAnd(r.number, 128) = 0 \/ shift1 > 32
                 THEN [stream |-> r.stream, error |-> ERROR_ALL_GOOD, number |-> n1]
                 ELSE read_7bit_loop(r.stream, n1, shift1)

\* on an error *number is left as the caller initialised it (0 at every call site)
bit_stream_read_7bit_uint32(s) == read_7bit_loop(s, U32(0), 0)

\* the while (n > 127) loop of bit_stream_write_7bit_uint32
RECURSIVE write_7bit_loop(_, _)
write_7bit_loop(s, n) ==
    IF U32Gt127(n)
    THEN LET b == BitOr(128, U32Low7(n))
             r == bit_stream_write_uint32(s, b, 8)
         IN  IF r.error # ERROR_ALL_GOOD
             THEN [stream |-> r.stream, error |-> r.error, n |-> n]
             ELSE write_7bit_loop(r.stream, U32Shr7(n))
    ELSE [stream |-> s, error |-> ERROR_ALL_GOOD, n |-> n]

\* Writes an uint32 using 7-bit VLQ approach.  The last group is written only
\* if (n > 0), and the error_t of that write is not assigned to `error`.
bit_stream_write_7bit_uint32(s, n) ==
    LET w == write_7bit_loop(s, n)
    IN  IF w.error # ERROR_ALL_GOOD
        THEN [stream |-> w.stream, error |-> w.error]
        ELSE IF w.n.hi > 0 \/ w.n.lo > 0
        THEN [stream |-> bit_stream_write_uint32(w.stream, U32Low7(w.n), 8).stream,
              error |-> ERROR_ALL_GOOD]
        ELSE [stream |-> w.stream, error |-> ERROR_ALL_GOOD]

-----------------------------------------------------------------------------
(* Configuration and sizing *)

lzss_config_init(offset_bits, length_bits, minimum_length) ==
    [offset_bits |-> offset_bits,
     max_offset |-> Pow2(offset_bits) - 1,
     minimum_length |-> minimum_length,
     length_bits |-> length_bits,
     max_length |-> Pow2(length_bits) - 1]

\* uint32_t arithmetic; 32 + 9 * input_length stays far below 2^32 for the
\* lengths of this model
lzss_get_upper_bound(input_length) ==
    LET total_bits == 32 + input_length * 9
    IN  (total_bits \div 8) + (IF total_bits % 8 > 0 THEN 1 ELSE 0)

lzss_get_original_length(inp) ==
    LET r == bit_stream_read_7bit_uint32(bit_stream_init(inp))
    IN  IF r.error # ERROR_ALL_GOOD
        THEN [error |-> r.error, original_length |-> U32(0)]
        ELSE [error |-> r.error, original_length |-> r.number]

-----------------------------------------------------------------------------
(* Match finder *)

\* the inner while loop of __get_longest_match
RECURSIVE run_length(_, _, _, _)
run_length(inp, offset, idx, length) ==
    IF /\ offset + length < inp.length
       /\ idx + length < inp.length
       /\ inp.bytes[offset + length + 1] = inp.bytes[idx + length + 1]
    THEN run_length(inp, offset, idx, length + 1)
    ELSE length

\* mutant: a strict comparison keeps the farthest of equally long candidates
keep_candidate_strict(length, best_length) == length > best_length

\* "We compare greater or equal, since a lower offset is better"
keep_candidate(length, best_length) == length >= best_length

\* the outer while loop of __get_longest_match
RECURSIVE scan_window(_, _, _, _, _)
scan_window(inp, idx, offset, best_offset, best_length) ==
    IF offset < idx /\ offset < inp.length
    THEN LET length == run_length(inp, offset, idx, 0)
         IN  IF keep_candidate(length, best_length)
             THEN scan_window(inp, idx, offset + 1, offset, length)
             ELSE scan_window(inp, idx, offset + 1, best_offset, best_length)
    ELSE [best_offset |-> best_offset, best_length |-> best_length]

\* __get_longest_match (C) and Lzss::get_longest_match (C++)
get_longest_match(cfg, inp, idx) ==
    IF idx + cfg.minimum_length >= inp.length
    THEN [offset |-> 0, length |-> 0]
    ELSE LET start == IF cfg.max_offset > idx THEN 0 ELSE idx - cfg.max_offset
             b == scan_window(inp, idx, start, 0, 0)
         IN  [offset |-> idx - b.best_offset,
              length |-> MIN(b.best_length, cfg.max_length)]

-----------------------------------------------------------------------------
(* Inputs of the model *)

\* 'A' and 'B'
Alphabet == {65, 66}

Inputs ==
    UNION {[1..n -> Alphabet] : n \in 0..MaxLen}
    \cup {[i \in 1..k |-> a] : a \in Alphabet, k \in 0..MaxRun}

\* the demo configuration of do_lzss_encoding / do_lzss_decoding
DemoConfig == lzss_config_init(10, 6, 2)

\* configurations with minimum_length >= 1 and offset_bits + length_bits <= 31
Configs ==
    {DemoConfig,
     lzss_config_init(21, 1, 1),
     lzss_config_init(2, 2, 1),
     lzss_config_init(3, 3, 2),
     lzss_config_init(1, 3, 1),
     lzss_config_init(0, 3, 1)}

\* bytes of the arbitrary compressed streams; 136 is two pair tokens of length
\* 0 under lzss_config_init(0, 3, 1)
StreamBytes == {0, 1, 2, 32, 128, 136, 255}

Streams == UNION {[1..n -> StreamBytes] : n \in 0..MaxStream}

\* what an out-of-bounds or uninitialised read may return
Garbage == {0, 65}

NoStream == bit_stream_init(NewArray(0))

NoMatch == [offset |-> 0, length |-> 0]

-----------------------------------------------------------------------------
(* lzss_encode *)

\* error_exit: output->length = 0; the bytes stored so far stay in the buffer
error_exit(s) == [bytes |-> s.buffer, length |-> 0]

\* no_error_exit: output->length = stream.buffer_position
no_error_exit(s) == [bytes |-> s.buffer, length |-> s.buffer_position]

\* the three try(...) writes of a pair token
write_pair(s, cfg, m) ==
    LET r1 == bit_stream_write_bit(s, 1)
    IN  IF r1.error # ERROR_ALL_GOOD THEN r1
        ELSE LET r2 == bit_stream_write_uint32(r1.stream, m.offset, cfg.offset_bits)
             IN  IF r2.error # ERROR_ALL_GOOD THEN r2
                 ELSE bit_stream_write_uint32(r2.stream, m.length, cfg.length_bits)

\* the two try(...) writes of a literal token
write_literal(s, byte) ==
    LET r1 == bit_stream_write_bit(s, 0)
    IN  IF r1.error # ERROR_ALL_GOOD THEN r1
        ELSE bit_stream_write_uint32(r1.stream, byte, 8)

\* a flush has failed: the error was returned, or the accumulator still holds
\* the eight bits a failed flush left in it
Overrun(r) == r.error = ERROR_BUFFER_OUT_OF_BOUNDS \/ r.stream.bit_count >= 8

\* lzss_encode up to its scan loop: the empty check and the header
EncodeBegin ==
    /\ pc = "enc_call"
    /\ IF input.length = 0
       THEN /\ error' = ERROR_NO_OP
            /\ pc' = "enc_ret"
            /\ UNCHANGED <<stream, output, overrun>>
       ELSE LET r == bit_stream_write_7bit_uint32(bit_stream_init(output), U32(input.length))
            IN  /\ stream' = r.stream
                /\ error' = r.error
                /\ overrun' = (overrun \/ Overrun(r))
                /\ IF r.error # ERROR_ALL_GOOD
                   THEN pc' = "enc_ret" /\ output' = error_exit(r.stream)
                   ELSE pc' = "enc_loop" /\ UNCHANGED output
    /\ index' = 0
    /\ UNCHANGED <<config, given, producer, input, capacity, match, number, tokens, faults, ops>>

\* one iteration of the scan loop of lzss_encode
EncodeStep ==
    /\ pc = "enc_loop"
    /\ index < input.length
    /\ LET m == get_longest_match(config, input, index)
           is_pair == m.length >= config.minimum_length
           r == IF is_pair THEN write_pair(stream, config, m)
                ELSE write_literal(stream, input.bytes[index + 1])
           token == IF is_pair
                    THEN [pair |-> TRUE, offset |-> m.offset, length |-> m.length]
                    ELSE [pair |-> FALSE, byte |-> input.bytes[index + 1]]
       IN  /\ match' = m
           /\ stream' = r.stream
           /\ error' = r.error
           /\ overrun' = (overrun \/ Overrun(r))
           /\ IF r.error # ERROR_ALL_GOOD
              THEN /\ pc' = "enc_ret"
                   /\ output' = error_exit(r.stream)
                   /\ UNCHANGED <<index, tokens>>
              ELSE /\ pc' = "enc_loop"
                   /\ index' = index + (IF is_pair THEN m.length ELSE 1)
                   /\ tokens' = Append(tokens, token)
                   /\ UNCHANGED output
    /\ UNCHANGED <<config, given, producer, input, capacity, number, faults, ops>>

\* the final flush of lzss_encode and its two exits
EncodeFinish ==
    /\ pc = "enc_loop"
    /\ index >= input.length
    /\ LET r == bit_stream_flush(stream)
       IN  /\ stream' = r.stream
           /\ error' = r.error
           /\ overrun' = (overrun \/ Overrun(r))
           /\ output' = IF r.error # ERROR_ALL_GOOD THEN error_exit(r.stream)
                        ELSE no_error_exit(r.stream)
    /\ pc' = "enc_ret"
    /\ UNCHANGED <<config, given, producer, input, capacity, index, match, number,
                   tokens, faults, ops>>
-----------------------------------------------------------------------------
(* lzss_decode *)

\* the read of output->bytes[(index - offset) + i] lies in the buffer.  The sum
\* is uint32_t arithmetic: a negative index - offset + i wraps to 2^32 plus
\* it, beyond every buffer of the model.
source_in_bounds(out, src) == src >= 0 /\ src < out.length

\* the write of output->bytes[index + i] lies in the buffer
target_in_bounds(out, dst) == dst < out.length

\* mutant: the copy reads the buffer as it was before the token (a block copy):
\* bytes the token itself wrote are not seen
copy_pair_block(out, idx, offset, length, i, g, flt) ==
    [output |-> [out EXCEPT !.bytes =
                     [j \in 1..out.length |->
                         IF j - 1 >= idx /\ j - 1 < idx + length
                         THEN IF source_in_bounds(out, j - 1 - offset)
                                 /\ out.bytes[j - offset] # Unwritten
                              THEN out.bytes[j - offset]
                              ELSE g
                         ELSE out.bytes[j]]],
     faults |-> flt]

\* for (i = 0; i < length; i += 1) output->bytes[index + i] = output->bytes[(index - offset) + i];
\* the code makes both accesses unchecked.  A read outside the buffer or of a
\* cell nothing was stored to yields g; a write outside the buffer leaves the
\* buffer as it is.  flt collects the kinds of such accesses.
RECURSIVE copy_pair(_, _, _, _, _, _, _)
copy_pair(out, idx, offset, length, i, g, flt) ==
    IF i < length
    THEN LET dst == idx + i
             src == idx - offset + i
             stray == ~source_in_bounds(out, src)
             fresh == ~stray /\ out.bytes[src + 1] = Unwritten
             value == IF stray \/ fresh THEN g ELSE out.bytes[src + 1]
             flt1 == flt \cup (IF stray THEN {"read_out_of_bounds"} ELSE {})
                         \cup (IF fresh THEN {"read_unwritten"} ELSE {})
                         \cup (IF target_in_bounds(out, dst) THEN {}
                               ELSE {"write_out_of_bounds"})
             out1 == IF target_in_bounds(out, dst)
                     THEN [out EXCEPT !.bytes[dst + 1] = value]
                     ELSE out
         IN  copy_pair(out1, idx, offset, length, i + 1, g, flt1)
    ELSE [output |-> out, faults |-> flt]

\* mutant: the literal's width is taken from the configuration (8 under (10, 6))
read_token_config_literal(s, cfg) ==
    LET r0 == bit_stream_read_bit(s)
    IN  IF r0.error # ERROR_ALL_GOOD
        THEN [stream |-> r0.stream, error |-> r0.error, pair |-> FALSE,
              offset |-> 0, length |-> 0, literal |-> 0]
        ELSE IF r0.bit = 1
        THEN LET ro == bit_stream_read_uint32(r0.stream, cfg.offset_bits)
                 rl == bit_stream_read_uint32(ro.stream, cfg.length_bits)
             IN  IF ro.error # ERROR_ALL_GOOD
                 THEN [stream |-> ro.stream, error |-> ro.error, pair |-> TRUE,
                       offset |-> 0, length |-> 0, literal |-> 0]
                 ELSE [stream |-> rl.stream, error |-> rl.error, pair |-> TRUE,
                       offset |-> ro.number, length |-> rl.number, literal |-> 0]
        ELSE LET rb == bit_stream_read_uint32(r0.stream, cfg.length_bits + 2)
             IN  [stream |-> rb.stream, error |-> rb.error, pair |-> FALSE,
                  offset |-> 0, length |-> 0, literal |-> rb.number]

\* the reads of one token: the flag bit, then offset and length, or the literal
read_token(s, cfg) ==
    LET r0 == bit_stream_read_bit(s)
    IN  IF r0.error # ERROR_ALL_GOOD
        THEN [stream |-> r0.stream, error |-> r0.error, pair |-> FALSE,
              offset |-> 0, length |-> 0, literal |-> 0]
        ELSE IF r0.bit = 1
        THEN LET ro == bit_stream_read_uint32(r0.stream, cfg.offset_bits)
             IN  IF ro.error # ERROR_ALL_GOOD
                 THEN [stream |-> ro.stream, error |-> ro.error, pair |-> TRUE,
                       offset |-> 0, length |-> 0, literal |-> 0]
                 ELSE LET rl == bit_stream_read_uint32(ro.stream, cfg.length_bits)
                      IN  [stream |-> rl.stream, error |-> rl.error, pair |-> TRUE,
                           offset |-> ro.number, length |-> rl.number, literal |-> 0]
        ELSE LET rb == bit_stream_read_uint32(r0.stream, 8)
             IN  [stream |-> rb.stream, error |-> rb.error, pair |-> FALSE,
                  offset |-> 0, length |-> 0, literal |-> rb.number]

\* if (input.length == 0 || output->length == 0) return ERROR_NO_OP;
nothing_to_decode(inp, out) == inp.length = 0 \/ out.length = 0

\* mutant: only an output too small for the declared length is refused
wrong_output_size_too_small(original_size, out) == U32Value(original_size) > out.length

\* if (original_size != output->length) return ERROR_WRONG_OUTPUT_SIZE;
wrong_output_size(original_size, out) == original_size # U32(out.length)

\* lzss_decode up to its loop: the two pre-checks and the header
DecodeBegin ==
    /\ pc = "dec_call"
    /\ IF nothing_to_decode(input, output)
       THEN /\ error' = ERROR_NO_OP
            /\ pc' = "dec_ret"
            /\ UNCHANGED <<stream, number>>
       ELSE LET r == bit_stream_read_7bit_uint32(bit_stream_init(input))
            IN  /\ stream' = r.stream
                /\ number' = r.number
                /\ IF r.error # ERROR_ALL_GOOD
                   THEN error' = r.error /\ pc' = "dec_ret"
                   ELSE IF wrong_output_size(r.number, output)
                   THEN error' = ERROR_WRONG_OUTPUT_SIZE /\ pc' = "dec_ret"
                   ELSE /\ error' = ERROR_ALL_GOOD
                        /\ pc' = IF 0 < output.length THEN "dec_loop" ELSE "dec_ret"
    /\ index' = 0
    /\ UNCHANGED <<config, given, producer, input, output, capacity, match, tokens,
                   overrun, faults, ops>>

\* one iteration of the loop of lzss_decode; the call returns when the loop
\* condition index < output->length fails, or on the first failed read
DecodeStep ==
    /\ pc = "dec_loop"
    /\ index < output.length
    /\ LET t == read_token(stream, config)
       IN  /\ stream' = t.stream
           /\ error' = t.error
           /\ IF t.error # ERROR_ALL_GOOD
              THEN /\ pc' = "dec_ret"
                   /\ UNCHANGED <<output, index, faults>>
              ELSE IF t.pair
              THEN \E g \in Garbage :
                     LET c == copy_pair(output, index, t.offset, t.length, 0, g, faults)
                     IN  /\ output' = c.output
                         /\ faults' = c.faults
                         /\ index' = index + t.length
                         /\ pc' = IF index + t.length < output.length
                                  THEN "dec_loop" ELSE "dec_ret"
              ELSE /\ output' = [output EXCEPT !.bytes[index + 1] = BitAnd(t.literal, 255)]
                   /\ index' = index + 1
                   /\ pc' = IF index + 1 < output.length THEN "dec_loop" ELSE "dec_ret"
                   /\ UNCHANGED faults
    /\ UNCHANGED <<config, given, producer, input, capacity, match, number, tokens,
                   overrun, ops>>

-----------------------------------------------------------------------------
(* The round trip of main: do_lzss_encoding, then do_lzss_decoding.  The model
   lets the caller choose the configurations and the encoder's output capacity,
   which lzss_encode and lzss_decode take as parameters. *)

\* do_lzss_decoding after a successful lzss_encode (main returns when it failed)
CallDecode ==
    /\ pc = "enc_ret"
    /\ error = ERROR_ALL_GOOD
    /\ \E dc \in Configs :
         LET compressed == ArrayOf(SubSeq(output.bytes, 1, output.length))
             l == lzss_get_original_length(compressed)
         IN  /\ config' = dc
             /\ input' = compressed
             /\ error' = l.error
             /\ number' = l.original_length
             /\ IF l.error # ERROR_ALL_GOOD
                THEN pc' = "exit" /\ UNCHANGED output
                ELSE pc' = "dec_call" /\ output' = NewArray(U32Value(l.original_length))
    /\ UNCHANGED <<given, producer, capacity, stream, index, match, tokens, overrun,
                   faults, ops>>

Capacities(n) == {lzss_get_upper_bound(n)} \cup 0..MaxCap

Init ==
    /\ pc = "enc_call"
    /\ config \in Configs
    /\ producer = config
    /\ given \in Inputs
    /\ input = ArrayOf(given)
    /\ capacity \in Capacities(Len(given))
    /\ output = NewArray(capacity)
    /\ stream = NoStream
    /\ index = 0
    /\ error = ERROR_ALL_GOOD
    /\ match = NoMatch
    /\ number = U32(0)
    /\ tokens = <<>>
    /\ overrun = FALSE
    /\ faults = {}
    /\ ops = 0

Next ==
    \/ EncodeBegin
    \/ EncodeStep
    \/ EncodeFinish
    \/ CallDecode
    \/ DecodeBegin
    \/ DecodeStep

Spec == Init /\ [][Next]_vars
-----------------------------------------------------------------------------
(* lzss_decode called on an arbitrary byte sequence with an arbitrary output *)

InitDec ==
    /\ pc = "dec_call"
    /\ config \in Configs
    /\ producer = "unknown"
    /\ given = <<>>
    /\ input \in {ArrayOf(s) : s \in Streams}
    /\ capacity \in 0..MaxOut
    /\ output = NewArray(capacity)
    /\ stream = NoStream
    /\ index = 0
    /\ error = ERROR_ALL_GOOD
    /\ match = NoMatch
    /\ number = U32(0)
    /\ tokens = <<>>
    /\ overrun = FALSE
    /\ faults = {}
    /\ ops = 0

NextDec == DecodeBegin \/ DecodeStep

SpecDec == InitDec /\ [][NextDec]_vars

-----------------------------------------------------------------------------
(* Both entry points: main's round trip, and lzss_decode on an arbitrary
   byte sequence *)

InitCalls == Init \/ InitDec

SpecCalls == InitCalls /\ [][Next]_vars

-----------------------------------------------------------------------------
(* __get_longest_match called at any index of any buffer *)

GetLongestMatch ==
    /\ pc \in {"match_call", "match_ret"}
    /\ \E i \in 0..input.length :
         /\ index' = i
         /\ match' = get_longest_match(config, input, i)
    /\ pc' = "match_ret"
    /\ UNCHANGED <<config, given, producer, input, output, capacity, stream, error,
                   number, tokens, overrun, faults, ops>>

InitMatch ==
    /\ pc = "match_call"
    /\ config \in Configs
    /\ producer = config
    /\ given \in Inputs
    /\ input = ArrayOf(given)
    /\ capacity = 0
    /\ output = NewArray(0)
    /\ stream = NoStream
    /\ index = 0
    /\ error = ERROR_ALL_GOOD
    /\ match = NoMatch
    /\ number = U32(0)
    /\ tokens = <<>>
    /\ overrun = FALSE
    /\ faults = {}
    /\ ops = 0

SpecMatch == InitMatch /\ [][GetLongestMatch]_vars

-----------------------------------------------------------------------------
(* The 7-bit VLQ of one value: written to a fresh stream, then read back from
   the bytes written *)

VlqCapacity == 5

VlqValues ==
    {U32(n) : n \in (0..40) \cup {127, 128, 129, 255, 256, 300, 16383, 16384, 16385,
                                  2097151, 2097152, 268435455, 268435456, 2147483647}}
    \cup {[hi |-> 32768, lo |-> 0], [hi |-> 65535, lo |-> 65535]}

VlqWrite ==
    /\ pc = "vlq_call"
    /\ LET r == bit_stream_write_7bit_uint32(bit_stream_init(output), given)
       IN  /\ stream' = r.stream
           /\ error' = r.error
           /\ output' = no_error_exit(r.stream)
    /\ pc' = "vlq_written"
    /\ UNCHANGED <<config, given, producer, input, capacity, index, match, number,
                   tokens, overrun, faults, ops>>

VlqRead ==
    /\ pc = "vlq_written"
    /\ LET written == ArrayOf(SubSeq(output.bytes, 1, output.length))
           r == bit_stream_read_7bit_uint32(bit_stream_init(written))
       IN  /\ input' = written
           /\ stream' = r.stream
           /\ error' = r.error
           /\ number' = r.number
    /\ pc' = "vlq_read"
    /\ UNCHANGED <<config, given, producer, output, capacity, index, match, tokens,
                   overrun, faults, ops>>

InitVlq ==
    /\ pc = "vlq_call"
    /\ config = DemoConfig
    /\ producer = config
    /\ given \in VlqValues
    /\ input = NewArray(0)
    /\ capacity = VlqCapacity
    /\ output = NewArray(capacity)
    /\ stream = NoStream
    /\ index = 0
    /\ error = ERROR_ALL_GOOD
    /\ match = NoMatch
    /\ number = U32(0)
    /\ tokens = <<>>
    /\ overrun = FALSE
    /\ faults = {}
    /\ ops = 0

NextVlq == VlqWrite \/ VlqRead

SpecVlq == InitVlq /\ [][NextVlq]_vars

-----------------------------------------------------------------------------
(* Any sequence of calls on one bit stream *)

\* the calls leave the rest of the state alone
BitsCall(r) ==
    /\ pc = "bits"
    /\ ops < MaxOps
    /\ ops' = ops + 1
    /\ stream' = r.stream
    /\ error' = r.error
    /\ overrun' = (overrun \/ Overrun(r))
    /\ UNCHANGED <<pc, config, given, producer, input, output, capacity, index, match,
                   tokens, faults>>

WriteBit == \E bit \in {0, 1} : BitsCall(bit_stream_write_bit(stream, bit)) /\ UNCHANGED number

WriteUint32 ==
    \E a \in {<<5, 3>>, <<171, 8>>} :
        BitsCall(bit_stream_write_uint32(stream, a[1], a[2])) /\ UNCHANGED number

Write7bit ==
    \E n \in {0, 5} : BitsCall(bit_stream_write_7bit_uint32(stream, U32(n))) /\ UNCHANGED number

Flush == BitsCall(bit_stream_flush(stream)) /\ UNCHANGED number

ReadBit ==
    LET r == bit_stream_read_bit(stream)
    IN  BitsCall(r) /\ number' = U32(r.bit)

ReadUint32 ==
    \E bits \in {3, 8} :
        LET r == bit_stream_read_uint32(stream, bits)
        IN  BitsCall(r) /\ number' = U32(r.number)

InitBits ==
    /\ pc = "bits"
    /\ config = DemoConfig
    /\ producer = config
    /\ given = <<>>
    /\ capacity \in 0..MaxBitCap
    /\ input \in {ArrayOf(s) : s \in [1..capacity -> {0, 165}]}
    /\ output = NewArray(0)
    /\ stream = bit_stream_init(input)
    /\ index = 0
    /\ error = ERROR_ALL_GOOD
    /\ match = NoMatch
    /\ number = U32(0)
    /\ tokens = <<>>
    /\ overrun = FALSE
    /\ faults = {}
    /\ ops = 0

NextBits == WriteBit \/ WriteUint32 \/ Write7bit \/ Flush \/ ReadBit \/ ReadUint32

SpecBits == InitBits /\ [][NextBits]_vars
-----------------------------------------------------------------------------
(* Claims *)

\* the encoder was given exactly lzss_get_upper_bound(input.length) bytes
UpperBoundRun == capacity = lzss_get_upper_bound(Len(given))

\* C1: round trip.  For every non-empty input and every configuration,
\* lzss_encode into lzss_get_upper_bound(length) bytes succeeds, and lzss_decode
\* of its result with the same configuration succeeds and yields the input;
\* for the empty input lzss_encode returns ERROR_NO_OP.
C1_RoundTrip ==
    /\ (pc = "enc_ret" /\ UpperBoundRun) =>
           error = (IF Len(given) = 0 THEN ERROR_NO_OP ELSE ERROR_ALL_GOOD)
    /\ (pc = "exit" /\ UpperBoundRun) => error = ERROR_ALL_GOOD
    /\ (pc = "dec_ret" /\ UpperBoundRun /\ config = producer) =>
           (error = ERROR_ALL_GOOD /\ output.bytes = given)

\* C2: upper bound sufficiency.  lzss_encode given exactly
\* lzss_get_upper_bound(input.length) bytes of output never returns
\* ERROR_BUFFER_OUT_OF_BOUNDS, and no flush finds the buffer full.
C2_UpperBoundSuffices ==
    UpperBoundRun =>
        (~overrun /\ (pc = "enc_ret" => error # ERROR_BUFFER_OUT_OF_BOUNDS))

\* number of bits of a uint32_t kept as halves
RECURSIVE BitLength(_)
BitLength(n) == IF n = 0 THEN 0 ELSE 1 + BitLength(n \div 2)

U32BitLength(n) == IF n.hi > 0 THEN 16 + BitLength(n.hi) ELSE BitLength(n.lo)

\* max(1, ceil(bit_length(v) / 7))
VlqByteCount(v) ==
    LET groups == (U32BitLength(v) + 6) \div 7
    IN  IF groups < 1 THEN 1 ELSE groups

\* C3: VLQ round trip.  bit_stream_write_7bit_uint32(v) on a fresh stream
\* writes exactly max(1, ceil(bit_length(v) / 7)) bytes (one zero byte for 0),
\* and bit_stream_read_7bit_uint32 on those bytes returns v after consuming
\* exactly the bytes written.
C3_VlqRoundTrip ==
    /\ pc \in {"vlq_written", "vlq_read"} =>
           /\ output.length = VlqByteCount(given)
           /\ (given = U32(0) => output.bytes[1] = 0)
    /\ pc = "vlq_read" =>
           /\ error = ERROR_ALL_GOOD
           /\ number = given
           /\ stream.buffer_position = output.length
           /\ stream.bit_count = 0
\* k copies of one byte, k >= 1
IsRun(s) == Len(s) >= 1 /\ \A i \in 1..Len(s) : s[i] = s[1]

\* the input is one byte repeated k times with minimum_length < k <= max_length,
\* encoded into lzss_get_upper_bound(k) bytes
RunCase ==
    /\ IsRun(given)
    /\ producer.minimum_length < Len(given)
    /\ Len(given) <= producer.max_length
    /\ UpperBoundRun

Literal(byte) == [pair |-> FALSE, byte |-> byte]

Pair(offset, length) == [pair |-> TRUE, offset |-> offset, length |-> length]

HasOverlappingPair ==
    \E i \in 1..Len(tokens) : tokens[i].pair /\ tokens[i].offset < tokens[i].length

\* C4 as claimed: self-overlap.  For every run of k copies of a byte with
\* minimum_length < k <= max_length, lzss_encode emits a pair token whose
\* offset is smaller than its length, and lzss_decode of the result yields the
\* k copies; 10 x 'A' under (10, 6, 2) is Literal('A'), Pair(1, 9).
C4_SelfOverlapEveryRun ==
    /\ (RunCase /\ pc \in {"enc_ret", "dec_call", "dec_loop", "dec_ret"}) =>
           HasOverlappingPair
    /\ (RunCase /\ pc = "dec_ret" /\ config = producer) =>
           (error = ERROR_ALL_GOOD /\ output.bytes = given)
    /\ (RunCase /\ pc = "enc_ret" /\ producer = DemoConfig /\ Len(given) = 10) =>
           tokens = <<Literal(given[1]), Pair(1, 9)>>

\* C4 as amended: for minimum_length + 1 < k <= max_length and offset_bits >= 1
\* the tokens are exactly Literal(a), Pair(1, k - 1), with 1 < k - 1; for
\* k = minimum_length + 1, or offset_bits = 0, the tokens are k literals and no
\* pair; in every case lzss_decode with the same configuration yields the k
\* copies.
C4_SelfOverlap ==
    /\ (RunCase /\ pc \in {"enc_ret", "dec_call", "dec_loop", "dec_ret"}) =>
           IF producer.minimum_length + 1 < Len(given) /\ producer.offset_bits >= 1
           THEN /\ tokens = <<Literal(given[1]), Pair(1, Len(given) - 1)>>
                /\ HasOverlappingPair
           ELSE tokens = [i \in 1..Len(given) |-> Literal(given[1])]
    /\ (RunCase /\ pc = "dec_ret" /\ config = producer) =>
           (error = ERROR_ALL_GOOD /\ output.bytes = given /\ faults = {})

\* 10 x 'A' under (10, 6, 2) went through the overlapping copy and came back
C4_Witness ==
    /\ pc = "dec_ret"
    /\ RunCase
    /\ config = producer
    /\ producer = DemoConfig
    /\ given = [i \in 1..10 |-> 65]
    /\ tokens = <<Literal(65), Pair(1, 9)>>
    /\ output.bytes = given

\* C5: encode failure handling.  When a flush made by lzss_encode found
\* buffer_position >= buffer_length, lzss_encode returns
\* ERROR_BUFFER_OUT_OF_BOUNDS with output->length = 0; it never returns
\* success after bits were lost.
C5_EncodeFailure ==
    (pc = "enc_ret" /\ overrun) =>
        (error = ERROR_BUFFER_OUT_OF_BOUNDS /\ output.length = 0)

\* C6: decode pre-checks.  lzss_decode returns ERROR_NO_OP when the input is
\* empty or the output length is 0; otherwise, when the length the header
\* declares differs from the output length, ERROR_WRONG_OUTPUT_SIZE; in both
\* cases no byte of the output has been stored.
C6_DecodePreChecks ==
    pc = "dec_ret" =>
        LET declared == lzss_get_original_length(input)
        IN  /\ (input.length = 0 \/ capacity = 0) =>
                   (error = ERROR_NO_OP /\ output = NewArray(capacity))
            /\ (/\ input.length > 0
                /\ capacity > 0
                /\ declared.error = ERROR_ALL_GOOD
                /\ declared.original_length # U32(capacity)) =>
                   (error = ERROR_WRONG_OUTPUT_SIZE /\ output = NewArray(capacity))
            /\ error \in {ERROR_NO_OP, ERROR_WRONG_OUTPUT_SIZE} =>
                   output = NewArray(capacity)

\* both pre-checks have answered: a stream declaring another length was refused
C6_Witness ==
    /\ pc = "dec_ret"
    /\ error = ERROR_WRONG_OUTPUT_SIZE
    /\ input.length > 0
    /\ capacity > 0
    /\ number # U32(capacity)

\* the stream was made with (10, 6) and is decoded with other bit widths
MismatchRun ==
    /\ pc = "dec_ret"
    /\ Len(given) > 0
    /\ producer = DemoConfig
    /\ (config.offset_bits # 10 \/ config.length_bits # 6)

NoPairToken == \A i \in 1..Len(tokens) : ~tokens[i].pair

\* C7 as claimed: config mismatch detection.  Decoding a stream made with
\* (10, 6) with other bit widths never returns success with the original
\* bytes.
C7_MismatchDetected ==
    MismatchRun => ~(error = ERROR_ALL_GOOD /\ output.bytes = given)

\* C7 as amended: a mismatch shows only through pair tokens.  When the stream
\* made with (10, 6) holds literal tokens only, decoding it with other bit
\* widths returns success with exactly the original bytes.
C7_LiteralStreamDecodesUnderAnyConfig ==
    (MismatchRun /\ NoPairToken) =>
        (error = ERROR_ALL_GOOD /\ output.bytes = given /\ faults = {})

\* a literal-only stream of several bytes was decoded with other bit widths
C7_Witness ==
    /\ MismatchRun
    /\ NoPairToken
    /\ Len(given) >= 3
    /\ error = ERROR_ALL_GOOD
    /\ output.bytes = given

\* number of equal bytes starting at p and at i, i + k staying inside the buffer
RunOf(b, p, i) ==
    CHOOSE k \in 0..(Len(b) - i) :
        /\ \A j \in 0..(k - 1) : b[p + j + 1] = b[i + j + 1]
        /\ (i + k = Len(b) \/ b[p + k + 1] # b[i + k + 1])

\* start positions in [max(0, index - max_offset), index)
Window == {p \in 0..(index - 1) : p >= index - config.max_offset}

Longest == CHOOSE l \in {RunOf(input.bytes, p, index) : p \in Window} :
               \A q \in Window : RunOf(input.bytes, q, index) <= l

Closest == CHOOSE p \in Window :
               /\ RunOf(input.bytes, p, index) = Longest
               /\ \A q \in Window : RunOf(input.bytes, q, index) = Longest => q <= p

\* C8: match selection.  With index + minimum_length < length the match has
\* length min(L, max_length) and offset index - p, L the longest run over the
\* window's start positions and p the largest start position achieving L (no
\* start position: length 0); with index + minimum_length >= length the match
\* has length 0.
C8_MatchSelection ==
    pc = "match_ret" =>
        IF index + config.minimum_length >= input.length
        THEN match.length = 0
        ELSE IF Window = {}
        THEN match.length = 0
        ELSE match = [offset |-> index - Closest,
                      length |-> MIN(Longest, config.max_length)]

\* two start positions tie on the longest run and the closer one was returned
C8_Witness ==
    /\ pc = "match_ret"
    /\ index + config.minimum_length < input.length
    /\ \E p, q \in Window :
         /\ p < q
         /\ RunOf(input.bytes, p, index) = Longest
         /\ RunOf(input.bytes, q, index) = Longest
    /\ Longest >= 2
    /\ match.offset = index - Closest
    /\ match.length = Longest

\* C9: bit stream invariant.  After any sequence of calls, failed ones
\* included, bit_count is in [0, 8] and buffer_position <= buffer_length.
C9_BitStreamInvariant ==
    /\ stream.bit_count \in 0..8
    /\ stream.buffer_position <= stream.buffer_length

\* C10: decode bounds safety.  Every output access of lzss_decode stays inside
\* [0, output length), and every back-reference reads a byte already written.
C10_DecodeBoundsSafe == faults = {}

\* bits the calls have taken out of the stream's buffer so far
BitsRead(s) == 8 * s.buffer_position - s.bit_count

\* how a returned lzss_decode call ended: a pre-check, a read past the input,
\* or the loop condition
DecodeEnding ==
    pc = "dec_ret" =>
        \/ error = ERROR_NO_OP /\ nothing_to_decode(input, output)
        \/ error = ERROR_WRONG_OUTPUT_SIZE /\ index = 0
        \/ /\ error = ERROR_BUFFER_OUT_OF_BOUNDS
           /\ stream.buffer_position >= stream.buffer_length
           /\ stream.bit_count = 0
           /\ index < output.length
        \/ error = ERROR_ALL_GOOD /\ index >= output.length

\* bits of the stream's buffer the reads have not handed out yet
BitsLeft(s) == 8 * (s.buffer_length - s.buffer_position) + s.bit_count

\* what is left of the running call, and of the calls main makes after it:
\* the bytes lzss_encode has not scanned, then the bits lzss_decode has not read
Remaining ==
    CASE pc = "enc_call" -> 5 + 8 * capacity + input.length
      [] pc = "enc_loop" -> 4 + 8 * capacity + (input.length - index)
      [] pc = "enc_ret"  -> IF error = ERROR_ALL_GOOD THEN 3 + 8 * output.length ELSE 0
      [] pc = "dec_call" -> 2 + 8 * input.length
      [] pc = "dec_loop" -> 1 + BitsLeft(stream)
      [] OTHER           -> 0

\* a call that has not returned has a step to take: the loop of lzss_decode is
\* left as soon as its condition fails
CallCanStep ==
    /\ pc \in {"enc_call", "enc_loop", "enc_ret", "dec_call", "dec_loop", "dec_ret", "exit"}
    /\ pc = "dec_loop" => index < output.length
    /\ pc = "enc_loop" => index <= input.length

\* C11: termination.  lzss_encode returns for every non-empty input and every
\* configuration with minimum_length >= 1, because each scan iteration advances
\* index by at least 1; lzss_decode returns for every input byte sequence and
\* configuration, pair tokens of length 0 included, because each iteration
\* takes at least one bit of the finite input, and a read past the input ends
\* the call with ERROR_BUFFER_OUT_OF_BOUNDS.  Stated as a variant: every step
\* of a call strictly decreases the natural number Remaining, and a call that
\* has not returned can always take its next step.
C11_Termination ==
    /\ [][Remaining' < Remaining]_vars
    /\ [](Remaining >= 0)
    /\ [][pc = "enc_loop" /\ pc' = "enc_loop" => index' >= index + 1]_vars
    /\ [][pc = "dec_loop" /\ pc' = "dec_loop" => BitsLeft(stream') + 1 <= BitsLeft(stream)]_vars
    /\ []CallCanStep
    /\ []DecodeEnding

\* lzss_decode has returned after its loop read a pair token of length 0: with
\* tokens of at most 9 bits, tokens that each advance index take at most
\* 9 * index bits after the header
C11_Witness ==
    /\ pc = "dec_ret"
    /\ error = ERROR_ALL_GOOD
    /\ index = output.length
    /\ 1 + config.offset_bits + config.length_bits <= 9
    /\ BitsRead(stream) > 8 * VlqByteCount(number) + 9 * index

====
